---- MODULE Spec2Model ----
(***************************************************************************)
(* vORM: CacheORM / CacheDefinition / ORMUtils of ORM.py.                  *)
(*                                                                         *)
(* A CacheORM is built from CacheDefinitions (a cache_key plus a mapping   *)
(* field name -> primitive type), and pushes / gets rows through a redis   *)
(* client: one blob per cache_key holding str(list of dicts).              *)
(***************************************************************************)
EXTENDS Integers, Sequences, FiniteSets, TLC

\* phase          where the constructor is: "constructing", "ready", "failed"
\* definitions    self.definitions
\* def_keys       self.def_keys
\* is_compressed  self.is_compressed
\* redis          the value redis holds under each cache key
\* pending        the call the client has made and that has not run yet
\* last           the last call that ran, with its result
\* thr            the local state of each of two concurrent clients
\* hist           history of the pushes of the concurrent clients in flight
VARIABLES phase, definitions, def_keys, is_compressed, redis, pending, last, thr, hist

vars == <<phase, definitions, def_keys, is_compressed, redis, pending, last, thr, hist>>

(***************************************************************************)
(* Bounds of the model.                                                    *)
(***************************************************************************)
\* rows stored over all cache keys (a push is only issued below this size)
MaxRows == 2
\* keyword arguments of one push call
MaxArgs == 2
\* keyword arguments of one push call of a concurrent client
MaxConcArgs == 1

(***************************************************************************)
(* Python values: a runtime type tag and a payload.                        *)
(***************************************************************************)
PyNone == [t |-> "NoneType", v |-> "None"]
PyInt30 == [t |-> "int", v |-> "30"]
PyTrue == [t |-> "bool", v |-> "True"]
PyDate == [t |-> "datetime", v |-> "2021-01-01 00:00:00.500000"]

\* the values a client passes to push
Values == {PyInt30, PyTrue, PyDate}

\* the keyword names a client passes to push
Names == {"value", "bogus"}

\* the cache keys a client uses
Keys == {"users", "events"}

\* CacheDefinition.PRIMITIVES
PRIMITIVES == {"int", "str", "bool", "list", "float", "dict", "datetime"}

\* isinstance(v, T) for T in PRIMITIVES: bool is a subclass of int
isinstance(v, T) == v.t = T \/ (v.t = "bool" /\ T = "int")

\* datetime.strftime(v, "%Y-%m-%d %H:%M:%S"): second precision
strftime(v) == [t |-> "str", v |-> "2021-01-01 00:00:00"]

(***************************************************************************)
(* ORMUtils: str(d).encode() [+ zlib.compress] and its inverse             *)
(* [zlib.decompress +] decode + ast.literal_eval.  The text of a list of   *)
(* dicts is kept as its literals: a literal is quoted (a string literal)   *)
(* or bare (a number, True, False, None, or a constructor call).           *)
(***************************************************************************)
\* repr(x) of a value inside the printed list
PyRepr(x) ==
    CASE x.t = "str" -> [q |-> TRUE, s |-> x.v]
      [] x.t = "datetime" -> [q |-> FALSE, s |-> "datetime.datetime(2021, 1, 1, 0, 0)"]
      [] OTHER -> [q |-> FALSE, s |-> x.v]

IntLiterals == {"30"}

\* a literal ast.literal_eval accepts
IsLiteral(tok) == tok.q \/ tok.s \in (IntLiterals \cup {"True", "False", "None"})

\* the value ast.literal_eval builds from an accepted literal
LiteralValue(tok) ==
    IF tok.q THEN [t |-> "str", v |-> tok.s]
    ELSE IF tok.s \in {"True", "False"} THEN [t |-> "bool", v |-> tok.s]
    ELSE IF tok.s = "None" THEN PyNone
    ELSE [t |-> "int", v |-> tok.s]

serialize_dict(d, compress) ==
    [z |-> compress,
     kind |-> "list",
     items |-> [i \in 1..Len(d) |-> [k \in DOMAIN d[i] |-> PyRepr(d[i][k])]]]

deserialize_dict(serialized_dict, decompress) ==
    IF decompress /\ ~serialized_dict.z
    THEN [exc |-> "zlib.error", kind |-> "none", val |-> <<>>]
    ELSE IF ~decompress /\ serialized_dict.z
    THEN [exc |-> "UnicodeDecodeError", kind |-> "none", val |-> <<>>]
    ELSE IF \E i \in DOMAIN serialized_dict.items :
               \E k \in DOMAIN serialized_dict.items[i] :
                   ~IsLiteral(serialized_dict.items[i][k])
    THEN [exc |-> "ValueError", kind |-> "none", val |-> <<>>]
    ELSE [exc |-> "none",
          kind |-> serialized_dict.kind,
          val |-> [i \in DOMAIN serialized_dict.items |->
                      [k \in DOMAIN serialized_dict.items[i] |->
                          LiteralValue(serialized_dict.items[i][k])]]]

(***************************************************************************)
(* CacheDefinition                                                         *)
(***************************************************************************)
\* CacheDefinition(cache_key, **kwargs): raises on a type outside PRIMITIVES
CacheDefinition(cache_key, kwargs) ==
    IF \E k \in DOMAIN kwargs : kwargs[k] \notin PRIMITIVES
    THEN [exc |-> "Unknown value passed", cls |-> "none", cache_key |-> cache_key, repr |-> kwargs]
    ELSE [exc |-> "none", cls |-> "CacheDefinition", cache_key |-> cache_key, repr |-> kwargs]

\* CacheDefinition._key
key(d) == d.cache_key

dict_of_types(d) == [k \in DOMAIN d.repr |-> [t |-> "type", v |-> d.repr[k]]]

\* CacheDefinition._dict: self.repr with None as the value of each key
dict(d) == [k \in DOMAIN d.repr |-> PyNone]

\* the objects a client builds and passes to CacheORM(*args)
Built ==
    {CacheDefinition("users", [value |-> "int"]),
     CacheDefinition("users", [value |-> "bool"]),
     CacheDefinition("events", [value |-> "datetime"]),
     CacheDefinition("events", [value |-> "ndarray"])}

NotADefinition == [exc |-> "none", cls |-> "str", cache_key |-> "users", repr |-> [value |-> "int"]]

Args == {d \in Built : d.exc = "none"} \cup {NotADefinition}

(***************************************************************************)
(* Results of a call: a returned value or a raised exception.              *)
(***************************************************************************)
Returned(x) == [raised |-> FALSE, what |-> x, val |-> <<>>]
ReturnedValue(val) == [raised |-> FALSE, what |-> "value", val |-> val]
Raised(e) == [raised |-> TRUE, what |-> e, val |-> <<>>]

NoCall == [op |-> "none", cache_key |-> "", kvals |-> <<>>, val_keys |-> {}]

\* the last completed call: its result, the position of the keyword argument
\* push raised at, what became of its redis.set, and (for a push that
\* returned True) its keyword arguments
NoLast ==
    [op |-> "none", cache_key |-> "", kvals |-> <<>>, res |-> Returned("None"),
     at |-> 0, set |-> "not called"]

\* redis has no value under a key
Absent == [z |-> FALSE, kind |-> "absent", items |-> <<>>]

(***************************************************************************)
(* CacheORM                                                                *)
(***************************************************************************)
\* list.index(x): the first position of x
index(l, x) == CHOOSE i \in 1..Len(l) : l[i] = x /\ \A j \in 1..(i - 1) : l[j] # x

\* x in l, for a list l
In(x, l) == \E i \in 1..Len(l) : l[i] = x

register_unchecked(keys, arg) ==
    IF arg.cls # "CacheDefinition" THEN "All arguments must CacheDefinition classes"
    ELSE "none"

\* one round of the loop of CacheORM.__init__ over an argument
register(keys, arg) ==
    IF arg.cls # "CacheDefinition" THEN "All arguments must CacheDefinition classes"
    ELSE IF In(key(arg), keys) THEN "Multiple definitions with same key not allowed"
    ELSE "none"

unpack_unchecked(keys, store, compressed, cache_key) ==
    IF ~In(cache_key, keys)
    THEN [exc |-> "none", kind |-> "False", val |-> <<>>]
    ELSE IF store[cache_key].kind = "absent"
    THEN [exc |-> "AttributeError", kind |-> "none", val |-> <<>>]
    ELSE deserialize_dict(store[cache_key], compressed)

\* CacheORM._unpack: False, or the decoded blob, or the decoder's exception
unpack(keys, store, compressed, cache_key) ==
    IF ~In(cache_key, keys)
    THEN [exc |-> "none", kind |-> "False", val |-> <<>>]
    ELSE IF store[cache_key].kind = "absent"
    THEN [exc |-> "none", kind |-> "False", val |-> <<>>]
    ELSE deserialize_dict(store[cache_key], compressed)

\* the type checking loop of CacheORM.push, from its i-th keyword argument on
RECURSIVE PushLoop(_, _, _, _, _)
PushLoop(def_repr, cache_state_keys, app_dict, kvals, i) ==
    IF i > Len(kvals) THEN [exc |-> "none", at |-> 0, app_dict |-> app_dict]
    ELSE IF kvals[i].k \notin cache_state_keys
    THEN [exc |-> "Unknown key", at |-> i, app_dict |-> app_dict]
    ELSE IF ~isinstance(kvals[i].v, def_repr[kvals[i].k])
    THEN [exc |-> "Type mismatch", at |-> i, app_dict |-> app_dict]
    ELSE PushLoop(def_repr, cache_state_keys,
                  [app_dict EXCEPT ![kvals[i].k] =
                      IF isinstance(kvals[i].v, "datetime") THEN strftime(kvals[i].v)
                      ELSE kvals[i].v],
                  kvals, i + 1)

\* CacheORM.push up to the end of its loop: the exception raised (and the
\* argument it was raised at), or the decoded cache_state and the app_dict
checked(keys, defs, compressed, store, cache_key, kvals) ==
    IF ~In(cache_key, keys)
    THEN [exc |-> "Unknown cache_key", at |-> 0, cache_state |-> <<>>, app_dict |-> <<>>]
    ELSE LET def_idx == index(keys, cache_key)
             def_repr == defs[def_idx].repr
             u == unpack(keys, store, compressed, cache_key)
             cache_state == IF u.kind = "False" \/ Len(u.val) = 0 THEN <<>> ELSE u.val
             cache_state_keys == DOMAIN dict(defs[def_idx])
             loop == PushLoop(def_repr, cache_state_keys, dict(defs[def_idx]), kvals, 1)
         IN  IF u.exc # "none"
             THEN [exc |-> u.exc, at |-> 0, cache_state |-> <<>>, app_dict |-> <<>>]
             ELSE [exc |-> loop.exc, at |-> loop.at, cache_state |-> cache_state,
                   app_dict |-> loop.app_dict]

serialized_alone(chk) == serialize_dict(<<chk.app_dict>>, FALSE)

\* cache_state.append(app_dict); serialize_dict(cache_state)
serialized(chk) == serialize_dict(Append(chk.cache_state, chk.app_dict), FALSE)

\* redis.set(key, value) as the blob store answers it: "stored" (the value
\* is stored and True returned), "raises" (an error is raised, nothing is
\* stored) or "returns false" (nothing is stored, a false value is returned)
redis_set(store, cache_key, value, outcome) ==
    IF outcome = "stored" THEN [store EXCEPT ![cache_key] = value] ELSE store

commit_early(store, cache_key, chk, outcome) ==
    IF chk.exc # "none"
    THEN [res |-> Raised(chk.exc),
          store |-> IF chk.at > 0 THEN redis_set(store, cache_key, serialized(chk), outcome)
                    ELSE store,
          set |-> IF chk.at > 0 THEN outcome ELSE "not called"]
    ELSE [res |-> IF outcome = "raises" THEN Raised("redis.RedisError") ELSE Returned("True"),
          store |-> redis_set(store, cache_key, serialized(chk), outcome),
          set |-> outcome]

\* the end of CacheORM.push: nothing after a raise; else append, serialize,
\* redis.set, return True
commit(store, cache_key, chk, outcome) ==
    IF chk.exc # "none"
    THEN [res |-> Raised(chk.exc), store |-> store, set |-> "not called"]
    ELSE [res |-> IF outcome = "raises" THEN Raised("redis.RedisError") ELSE Returned("True"),
          store |-> redis_set(store, cache_key, serialized(chk), outcome),
          set |-> outcome]

\* CacheORM.push
push(keys, defs, compressed, store, cache_key, kvals, outcome) ==
    commit(store, cache_key, checked(keys, defs, compressed, store, cache_key, kvals), outcome)

\* CacheORM.get
get(keys, compressed, store, cache_key, val_keys) ==
    IF ~In(cache_key, keys) THEN Returned("False")
    ELSE LET result_dict == unpack(keys, store, compressed, cache_key)
         IN  IF result_dict.exc # "none" THEN Raised(result_dict.exc)
             ELSE IF result_dict.kind = "False" \/ Len(result_dict.val) = 0
             THEN Returned("False")
             ELSE IF result_dict.kind = "list"
             THEN Raised("AttributeError")
             ELSE ReturnedValue(result_dict.val)

(***************************************************************************)
(* The calls of a client.                                                  *)
(***************************************************************************)
Pairs == [k : Names, v : Values]

KVals(n) ==
    {s \in UNION {[1..m -> Pairs] : m \in 0..n} :
        \A i, j \in DOMAIN s : i # j => s[i].k # s[j].k}

PushCalls == {[op |-> "push", cache_key |-> c, kvals |-> kv, val_keys |-> {}] :
                 c \in Keys, kv \in KVals(MaxArgs)}

GetCalls == {[op |-> "get", cache_key |-> c, kvals |-> <<>>, val_keys |-> vk] :
                c \in Keys, vk \in SUBSET Names}

RECURSIVE Rows(_, _)
Rows(store, ks) ==
    IF ks = {} THEN 0
    ELSE LET c == CHOOSE c \in ks : TRUE
         IN  Len(store[c].items) + Rows(store, ks \ {c})

Threads == {1, 2}

NoThread ==
    [pc |-> "idle", cache_key |-> "", kvals |-> <<>>, seen |-> Absent, value |-> Absent,
     res |-> Returned("None"), fresh |-> FALSE]

NoHist == [both |-> FALSE, order |-> <<>>]

(***************************************************************************)
(* One client at a time: construction, then calls run to completion.       *)
(***************************************************************************)
Init ==
    /\ phase = "constructing"
    /\ definitions = <<>>
    /\ def_keys = <<>>
    /\ is_compressed = FALSE
    /\ redis = [c \in Keys |-> Absent]
    /\ pending = NoCall
    /\ last = NoLast
    /\ thr = [t \in Threads |-> NoThread]
    /\ hist = NoHist

\* CacheORM.__init__: one round of the loop over args
Register(arg) ==
    /\ phase = "constructing"
    /\ IF register(def_keys, arg) = "none"
       THEN /\ definitions' = Append(definitions, arg)
            /\ def_keys' = Append(def_keys, key(arg))
            /\ UNCHANGED <<phase, last>>
       ELSE /\ phase' = "failed"
            /\ last' = [NoLast EXCEPT !.op = "init", !.cache_key = key(arg),
                                      !.res = Raised(register(def_keys, arg))]
            /\ UNCHANGED <<definitions, def_keys>>
    /\ UNCHANGED <<is_compressed, redis, pending, thr, hist>>

\* CacheORM.__init__ returns
Constructed ==
    /\ phase = "constructing"
    /\ phase' = "ready"
    /\ UNCHANGED <<definitions, def_keys, is_compressed, redis, pending, last, thr, hist>>

\* the client sets the public attribute is_compressed between two calls
SetCompressed(b) ==
    /\ phase = "ready"
    /\ pending = NoCall
    /\ is_compressed # b
    /\ is_compressed' = b
    /\ UNCHANGED <<phase, definitions, def_keys, redis, pending, last, thr, hist>>

\* the client calls push or get
Call(c) ==
    /\ phase = "ready"
    /\ pending = NoCall
    /\ c.op = "push" => Rows(redis, Keys) < MaxRows
    /\ pending' = c
    /\ UNCHANGED <<phase, definitions, def_keys, is_compressed, redis, last, thr, hist>>

PushWith(outcome) ==
    /\ pending.op = "push"
    /\ LET chk == checked(def_keys, definitions, is_compressed, redis,
                          pending.cache_key, pending.kvals)
           r == push(def_keys, definitions, is_compressed, redis,
                     pending.cache_key, pending.kvals, outcome)
       IN  /\ redis' = r.store
           /\ last' = [op |-> "push", cache_key |-> pending.cache_key,
                       kvals |-> IF r.res = Returned("True") THEN pending.kvals ELSE <<>>,
                       res |-> r.res, at |-> chk.at, set |-> r.set]
    /\ pending' = NoCall
    /\ UNCHANGED <<phase, definitions, def_keys, is_compressed, thr, hist>>

\* CacheORM.push against a redis that stores the value or raises
Push == \E outcome \in {"stored", "raises"} : PushWith(outcome)

\* CacheORM.get
Get ==
    /\ pending.op = "get"
    /\ last' = [op |-> "get", cache_key |-> pending.cache_key, kvals |-> <<>>,
                res |-> get(def_keys, is_compressed, redis, pending.cache_key, pending.val_keys),
                at |-> 0, set |-> "not called"]
    /\ pending' = NoCall
    /\ UNCHANGED <<phase, definitions, def_keys, is_compressed, redis, thr, hist>>

Next ==
    \/ \E arg \in Args : Register(arg)
    \/ Constructed
    \/ \E b \in BOOLEAN : SetCompressed(b)
    \/ \E c \in PushCalls \cup GetCalls : Call(c)
    \/ Push
    \/ Get

Spec == Init /\ [][Next]_vars

(***************************************************************************)
(* The same client against a blob store whose set may also report failure  *)
(* by its return value.                                                    *)
(***************************************************************************)
PushUnstored == PushWith("returns false")

NextFault == Next \/ PushUnstored

SpecFault == Init /\ [][NextFault]_vars

(***************************************************************************)
(* Two clients of one constructed facade, each running push as the code    *)
(* runs it: everything up to serialize_dict on what it read, then the      *)
(* redis.set.  A client's fresh says that nothing was set under its cache  *)
(* key since it read; hist remembers whether the two pushes in flight both *)
(* read the same blob before either wrote, and the order of their writes.  *)
(***************************************************************************)
InitConc ==
    /\ phase = "ready"
    /\ definitions = <<CacheDefinition("users", [value |-> "int"]),
                       CacheDefinition("events", [value |-> "datetime"])>>
    /\ def_keys = <<"users", "events">>
    /\ is_compressed = FALSE
    /\ redis = [c \in Keys |-> Absent]
    /\ pending = NoCall
    /\ last = NoLast
    /\ thr = [t \in Threads |-> NoThread]
    /\ hist = NoHist

Other(t) == CHOOSE o \in Threads : o # t

\* CacheORM.push of client t up to serialize_dict
PushRead(t, c, kv) ==
    /\ thr[t].pc = "idle"
    /\ Rows(redis, Keys) < MaxRows
    /\ LET chk == checked(def_keys, definitions, is_compressed, redis, c, kv)
       IN  IF chk.exc # "none"
           THEN /\ thr' = [thr EXCEPT ![t] =
                              [NoThread EXCEPT !.pc = "done", !.cache_key = c,
                                               !.res = Raised(chk.exc)]]
                /\ UNCHANGED hist
           ELSE /\ thr' = [thr EXCEPT ![t] =
                              [pc |-> "writing", cache_key |-> c, kvals |-> kv,
                               seen |-> redis[c], value |-> serialized(chk),
                               res |-> Returned("None"), fresh |-> TRUE]]
                /\ hist' = [both |-> /\ thr[Other(t)].pc = "writing"
                                     /\ thr[Other(t)].cache_key = c
                                     /\ thr[Other(t)].fresh,
                            order |-> <<>>]
    /\ UNCHANGED <<phase, definitions, def_keys, is_compressed, redis, pending, last>>

\* the redis.set of client t and its return True
PushWrite(t) ==
    /\ thr[t].pc = "writing"
    /\ redis' = redis_set(redis, thr[t].cache_key, thr[t].value, "stored")
    /\ thr' = [thr EXCEPT ![t].pc = "done", ![t].res = Returned("True"), ![t].fresh = FALSE,
                          ![Other(t)].fresh = @ /\ thr[Other(t)].cache_key # thr[t].cache_key]
    /\ hist' = [hist EXCEPT !.order = Append(@, t)]
    /\ UNCHANGED <<phase, definitions, def_keys, is_compressed, pending, last>>

\* client t takes its result and is free to push again
PushReturn(t) ==
    /\ thr[t].pc = "done"
    /\ thr' = [thr EXCEPT ![t] = NoThread]
    /\ hist' = NoHist
    /\ UNCHANGED <<phase, definitions, def_keys, is_compressed, redis, pending, last>>

NextConc ==
    \/ \E t \in Threads, c \in Keys, kv \in KVals(MaxConcArgs) : PushRead(t, c, kv)
    \/ \E t \in Threads : PushWrite(t)
    \/ \E t \in Threads : PushReturn(t)

SpecConc == InitConc /\ [][NextConc]_vars

(***************************************************************************)
(* Properties                                                              *)
(***************************************************************************)
\* the sequence of records a blob holds (the empty sequence when redis has
\* no value)
RowSet(blob) ==
    IF blob.kind = "absent" THEN <<>> ELSE deserialize_dict(blob, blob.z).val

\* the definition registered under a cache key
Schema(c) == definitions[index(def_keys, c)]

Supplied(kvals, f) == \E i \in DOMAIN kvals : kvals[i].k = f

ValueOf(kvals, f) == kvals[CHOOSE i \in DOMAIN kvals : kvals[i].k = f].v

\* a pushed value as a record holds it: a timestamp as its formatted string
Held(v) == IF v.t = "datetime" THEN [t |-> "str", v |-> "2021-01-01 00:00:00"] ELSE v

\* a step that completes the pending push
PushStep == pending.op = "push" /\ last'.op = "push" /\ pending' = NoCall

\* a step that completes the pending get
GetStep == pending.op = "get" /\ last'.op = "get" /\ pending' = NoCall

ValidationErrors == {"Unknown cache_key", "Unknown key", "Type mismatch"}

\* C1: a push that raises for an unknown cache key, an undeclared keyword or
\* a value of the wrong type has issued no redis.set and leaves every stored
\* blob and the registry as they were.
FailedPushTouchesNothing ==
    [][(PushStep /\ last'.res.raised /\ last'.res.what \in ValidationErrors)
         => /\ last'.set = "not called"
            /\ redis' = redis
            /\ definitions' = definitions
            /\ def_keys' = def_keys]_vars

\* C1 witness: a push raised at its second keyword argument (the first one
\* was valid) on a cache key that holds a blob.
FailedPushAfterValidKey ==
    /\ last.op = "push"
    /\ last.res = Raised("Unknown key")
    /\ last.at = 2
    /\ redis[last.cache_key] # Absent

\* C2 (as claimed): a get that directly follows a successful push on the
\* same cache key returns a structure that holds every pushed value
\* (timestamps as their formatted string); it neither raises nor returns
\* False.
GetAfterPushReturnsPushed ==
    [][(GetStep /\ last.op = "push" /\ last.res = Returned("True")
               /\ last.cache_key = pending.cache_key)
         => /\ ~last'.res.raised
            /\ last'.res.what = "value"
            /\ \E i \in DOMAIN last'.res.val :
                   \A j \in DOMAIN last.kvals :
                       last'.res.val[i][last.kvals[j].k] = Held(last.kvals[j].v)]_vars

\* the record C3 expects a successful push to append, each supplied value
\* held as h holds it
Appended(c, kvals, h(_)) ==
    [f \in DOMAIN Schema(c).repr |->
        IF Supplied(kvals, f) THEN h(ValueOf(kvals, f)) ELSE PyNone]

Same(v) == v

\* C3 (as claimed): a successful push replaces the Row Set under its cache
\* key by the stored sequence plus one record, which has the declared fields,
\* the pushed value for each supplied field and None for the others; the
\* other blobs are unchanged.
PushAppendsPushedValues ==
    [][(PushStep /\ last'.res = Returned("True"))
         => /\ RowSet(redis'[pending.cache_key]) =
                  Append(RowSet(redis[pending.cache_key]),
                         Appended(pending.cache_key, pending.kvals, Same))
            /\ \A c \in Keys \ {pending.cache_key} : redis'[c] = redis[c]]_vars

\* C3 (amended): as above, a supplied timestamp being held as its formatted
\* string.
PushAppendsOneRecord ==
    [][(PushStep /\ last'.res = Returned("True"))
         => /\ RowSet(redis'[pending.cache_key]) =
                  Append(RowSet(redis[pending.cache_key]),
                         Appended(pending.cache_key, pending.kvals, Held))
            /\ \A c \in Keys \ {pending.cache_key} : redis'[c] = redis[c]]_vars

\* C3 witness: a push without keyword arguments succeeded on a cache key
\* whose earlier record holds a pushed timestamp, as its formatted string,
\* and the new record has None in that field.
PushedSecondRecord ==
    /\ last.op = "push"
    /\ last.res = Returned("True")
    /\ Len(last.kvals) = 0
    /\ Len(RowSet(redis[last.cache_key])) = 2
    /\ RowSet(redis[last.cache_key])[1].value = Held(PyDate)
    /\ RowSet(redis[last.cache_key])[2].value = PyNone

\* C4 (as claimed): a push to a registered cache key whose keywords are all
\* declared and one of whose values has a type tag other than the declared
\* one raises the type mismatch and stores nothing.
WrongTagIsRejected ==
    [][(/\ PushStep
        /\ In(pending.cache_key, def_keys)
        /\ unpack(def_keys, redis, is_compressed, pending.cache_key).exc = "none"
        /\ \A i \in DOMAIN pending.kvals :
               pending.kvals[i].k \in DOMAIN Schema(pending.cache_key).repr
        /\ \E i \in DOMAIN pending.kvals :
               pending.kvals[i].v.t # Schema(pending.cache_key).repr[pending.kvals[i].k])
         => /\ last'.res = Raised("Type mismatch")
            /\ redis' = redis]_vars

\* C6 (as claimed): when the redis.set of a push reports failure, by raising
\* or by its return value, the push does not return True.
SetFailureReachesCaller ==
    [][(PushStep /\ last'.set \in {"raises", "returns false"})
         => last'.res # Returned("True")]_vars

\* C7: get on a cache key that is not registered, or that is registered and
\* has no blob, returns False, raises nothing and leaves redis as it was.
GetFailsClosed ==
    [][(GetStep /\ (~In(pending.cache_key, def_keys)
                    \/ redis[pending.cache_key] = Absent))
         => /\ last'.res = Returned("False")
            /\ redis' = redis]_vars

\* C7 witness: get returned False on a registered cache key without a blob,
\* while another cache key holds one.
GetFoundNothing ==
    /\ last.op = "get"
    /\ last.res = Returned("False")
    /\ In(last.cache_key, def_keys)
    /\ redis[last.cache_key] = Absent
    /\ \E c \in Keys : redis[c] # Absent

\* a record conforms to a definition
Conforms(rec, d) ==
    /\ DOMAIN rec \subseteq DOMAIN d.repr
    /\ \A f \in DOMAIN rec :
           \/ rec[f] = PyNone
           \/ rec[f].t = d.repr[f]
           \/ (d.repr[f] = "datetime" /\ rec[f].t = "str")

\* C8 (as claimed): every record of every stored Row Set conforms to the
\* definition registered under its cache key.
StoredRecordsConform ==
    \A c \in Keys :
        redis[c] # Absent =>
            /\ In(c, def_keys)
            /\ \A i \in DOMAIN RowSet(redis[c]) : Conforms(RowSet(redis[c])[i], Schema(c))

\* C9: the name list and the definition list are aligned and hold no name
\* twice; a registration under a registered name raises and leaves both
\* lists as they were; a registration only ever appends.
RegistryAligned ==
    /\ Len(def_keys) = Len(definitions)
    /\ \A i \in DOMAIN def_keys :
           /\ def_keys[i] = definitions[i].cache_key
           /\ Schema(def_keys[i]) = definitions[i]
    /\ \A i, j \in DOMAIN def_keys : i # j => def_keys[i] # def_keys[j]

FirstRegistrationStays ==
    /\ []RegistryAligned
    /\ [][/\ \A i \in DOMAIN definitions :
                 i \in DOMAIN definitions' /\ definitions'[i] = definitions[i]
          /\ (last'.op = "init"
              /\ last'.res = Raised("Multiple definitions with same key not allowed"))
                 => /\ In(last'.cache_key, def_keys)
                    /\ definitions' = definitions
                    /\ def_keys' = def_keys]_vars

\* C9 witness: the constructor raised on a second definition for a cache key
\* after another definition was registered behind the first one.
DuplicateRaised ==
    /\ phase = "failed"
    /\ last.res = Raised("Multiple definitions with same key not allowed")
    /\ Len(definitions) = 2
    /\ definitions[1].cache_key = last.cache_key

\* C10 (as claimed): every blob a push stored is decoded by _unpack, under
\* the facade's is_compressed, to the sequence that was encoded.
StoredBlobUnpacks ==
    \A c \in Keys :
        redis[c] # Absent =>
            /\ unpack(def_keys, redis, is_compressed, c).exc = "none"
            /\ unpack(def_keys, redis, is_compressed, c).val = RowSet(redis[c])

\* C5: when two pushes to one cache key both read before either wrote, both
\* return True and redis ends with what the pushes read plus the record of
\* the later writer alone: one row more, the earlier writer's record gone.
LaterWriteWins ==
    (thr[1].pc = "done" /\ thr[2].pc = "done" /\ hist.both /\ Len(hist.order) = 2)
        => LET w == hist.order[2]
               e == hist.order[1]
               c == thr[w].cache_key
           IN  /\ thr[e].res = Returned("True")
               /\ thr[w].res = Returned("True")
               /\ thr[e].cache_key = c
               /\ thr[e].seen = thr[w].seen
               /\ RowSet(redis[c]) =
                      Append(RowSet(thr[w].seen), Appended(c, thr[w].kvals, Held))
               /\ Len(RowSet(redis[c])) = Len(RowSet(thr[e].seen)) + 1

\* C5 witness: two pushes of different records to a cache key that already
\* held a row both read before either wrote, and both have returned.
BothPushedOverlapping ==
    /\ thr[1].pc = "done"
    /\ thr[2].pc = "done"
    /\ hist.both
    /\ Len(hist.order) = 2
    /\ thr[1].kvals # thr[2].kvals
    /\ thr[1].value # thr[2].value
    /\ Len(RowSet(thr[1].seen)) = 1

====
